---- MODULE Spec2Model ----
(***************************************************************************)
(* A model of poke (reserve-protocol/poke): the build cache and abigen,    *)
(* the uint256 converter, command synthesis, and one run of the process    *)
(* with its exit-time cleanup.                                             *)
(*                                                                         *)
(* Strings that the code splits or concatenates are sequences of tokens    *)
(* (<<"d", "/", "T", ".sol">> is "d/T.sol"); decimal numbers are digit     *)
(* sequences, since the values (10^18 and above) exceed TLC's integers.    *)
(***************************************************************************)
EXTENDS Integers, Sequences, FiniteSets, TLC

VARIABLES
    \* ---- build cache (main.go, get-or-build closure and abigen)
    solFile,        \* pflag.Arg(0), the source path as given
    contractName,   \* the -c flag
    source,         \* content of the source file on disk
    dep,            \* content of the files the source imports (not hashed)
    cache,          \* cache directory: file name -> file content
    built,          \* history: file name -> description abigen returned when the file was last written
    last,           \* the last run of get-or-build: inputs, pre-state and result
    \* ---- uint256 converter (parseToAtto / truncateDecimal / toDisplay)
    numIn,          \* the argument text
    numAtto,        \* result of parseToAtto, or "none" / "fatal"
    numShown,       \* result of toDisplay, or "none"
    numBack,        \* parseToAtto("int:" + numShown), or "none"
    \* ---- the "@n" shorthand (init, parseKey, parseAddress)
    startEnv,       \* POKE_0.. in the environment the process was started with
    environ,        \* POKE_0.. in the environment of the process now
    keysReady,      \* init() has run
    parsedLog,      \* the calls of parseAddress so far: argument and result
    \* ---- command synthesis (main.go, mainErr after the ABI is parsed)
    abiMethods,     \* theABI.Methods: the methods, one per name
    rootCmds,       \* the commands of root, in the order of root.AddCommand
    calls,          \* the "State Reading Calls" block
    transactions,   \* the "State-Changing Transactions" block
    synthesized,    \* the commands have been built
    docDev,         \* devDoc.Methods[sig].Details of a method
    docUser,        \* userDoc.Methods[sig].Notice of a method
    docCmd,         \* Short and Long of the method's command, once built
    \* ---- one run of the process (main, mainErr, the command handlers)
    cfg,            \* the command line and environment of the run
    pc,             \* 0 before mainErr's prelude, then the place in the handler
    exit,           \* [done, code, how]: the end of the process
    workDir,        \* the temporary working directory exists
    client,         \* var client: TRUE once dialled (not nil)
    deployment,     \* var deployment: TRUE once bound (not nil)
    hw,             \* singletonWallet, singletonAccount and the device behind them
    exitFuncs,      \* var exitFuncs
    tx,             \* the transaction of a mutating command
    events          \* what the run did, in order: I/O, prompts, output

cacheVars == <<solFile, contractName, source, dep, cache, built, last>>
keyVars == <<startEnv, environ, keysReady, parsedLog>>
numVars == <<numIn, numAtto, numShown, numBack, keyVars>>
docVars == <<docDev, docUser, docCmd>>
synthVars == <<abiMethods, rootCmds, calls, transactions, synthesized, docVars>>
runVars == <<cfg, pc, exit, workDir, client, deployment, hw, exitFuncs, tx, events>>
vars == <<cacheVars, numVars, synthVars, runVars>>

-----------------------------------------------------------------------------
(* Strings as token sequences                                              *)

RECURSIVE SplitAcc(_, _, _, _)
SplitAcc(s, sep, cur, acc) ==
    IF s = <<>> THEN Append(acc, cur)
    ELSE IF Head(s) = sep THEN SplitAcc(Tail(s), sep, <<>>, Append(acc, cur))
    ELSE SplitAcc(Tail(s), sep, Append(cur, Head(s)), acc)

\* strings.Split(s, sep)
Split(s, sep) == SplitAcc(s, sep, <<>>, <<>>)

\* strings.TrimSuffix(s, suf), suf a single token
TrimSuffix(s, suf) ==
    IF Len(s) > 0 /\ s[Len(s)] = suf THEN SubSeq(s, 1, Len(s) - 1) ELSE s

\* strings.HasPrefix(s, p), p a single token
HasPrefix(s, p) == Len(s) > 0 /\ s[1] = p

RECURSIVE SetToSeq(_)
\* the elements of a finite set in some order (a Go map's iteration order)
SetToSeq(S) ==
    IF S = {} THEN <<>>
    ELSE LET x == CHOOSE y \in S : TRUE IN <<x>> \o SetToSeq(S \ {x})

-----------------------------------------------------------------------------
(* The build cache and abigen (main.go)                                    *)

\* upper bound of the versions of the imported files
MaxDep == 1

\* the source paths a run may be given
SolFiles == { <<"T", ".sol">>, <<"d", "/", "T", ".sol">> }

\* the values of the -c flag (<<>>: flag not given)
ContractNames == { <<>>, <<"T">> }

\* the contents the source file may have ("missing": no such file)
Contents == { "missing", "broken", "one", "other", "dup", "import", "badbin", "baddoc" }

\* one entry of solc's combined JSON: parsed.Contracts[key]
Entry(key, c, d, bin, doc) ==
    [key |-> key, ABI |-> <<"abi", key, c, d>>, Bin |-> bin, UserDoc |-> doc, DevDoc |-> doc]

\* exec.Command("solc", ..., solFile).Output() followed by the JSON decoding:
\* ok = FALSE (solc or the decoding failed) or parsed.Contracts as a set of
\* entries with distinct keys. solc
\* names a contract "<path as given>:<Contract>"; an imported file contributes
\* entries under its own path.
Solc(f, c, d) ==
    LET Out(S) == [ok |-> TRUE, contracts |-> S] IN
    CASE c = "broken" -> [ok |-> FALSE, contracts |-> {}]
      [] c = "one"    -> Out({ Entry(f \o <<":", "T">>, c, d, "hex", "json") })
      [] c = "other"  -> Out({ Entry(f \o <<":", "V">>, c, d, "hex", "json") })
      [] c = "dup"    -> Out({ Entry(f \o <<":", "T">>, c, d, "hex", "json"),
                               Entry(f \o <<":", "T", ":", "x">>, c, d, "hex", "json") })
      [] c = "import" -> Out({ Entry(f \o <<":", "T">>, c, d, "hex", "json"),
                               Entry(<<"e", "/", "T", ".sol", ":", "T">>, c, d, "hex", "json") })
      [] c = "badbin" -> Out({ Entry(f \o <<":", "T">>, c, d, "nothex", "json") })
      [] c = "baddoc" -> Out({ Entry(f \o <<":", "T">>, c, d, "hex", "notjson") })
      [] OTHER        -> [ok |-> FALSE, contracts |-> {}]

\* the hash taken before the source bytes are written to it
SHA256Constant(c) == <<"sha256", "">>

\* sha256 of the source bytes: distinct contents have distinct hashes
SHA256(c) == <<"sha256", c>>

\* fmt.Sprintf("%v-%v.gob", solFile, *contractName)
Fname(f, name) == f \o <<"-">> \o name \o <<".gob">>

\* matchName of abigen: the -c name, or the last path element without ".sol"
MatchName(f, name) ==
    IF name = <<>>
    THEN LET parts == Split(f, "/") IN TrimSuffix(parts[Len(parts)], ".sol")
    ELSE name

\* the condition of abigen's loop over parsed.Contracts
KeyMatches(key, f, matchName) ==
    LET nameParts == Split(key, ":")
    IN  nameParts[1] = f /\ nameParts[2] = matchName

RECURSIVE Select(_, _, _)
\* abigen's loop: the entries appended to compilerOutputs, in iteration order
Select(entries, f, matchName) ==
    IF entries = <<>> THEN <<>>
    ELSE (IF KeyMatches(Head(entries).key, f, matchName) THEN <<Head(entries)>> ELSE <<>>)
         \o Select(Tail(entries), f, matchName)

\* the checks on len(compilerOutputs) without the one for more than one result
ChooseFirst(compilerOutputs) ==
    IF Len(compilerOutputs) = 0 THEN [fatal |-> TRUE]
    ELSE [fatal |-> FALSE, out |-> compilerOutputs[1]]

\* the checks on len(compilerOutputs): fatal (fatalf, exit code 1) or the one entry
ChooseContract(compilerOutputs) ==
    IF Len(compilerOutputs) = 0 THEN [fatal |-> TRUE]
    ELSE IF Len(compilerOutputs) > 1 THEN [fatal |-> TRUE]
    ELSE [fatal |-> FALSE, out |-> compilerOutputs[1]]

\* abigen(solFile, contractName, workDir) on source content c and imports d
abigen(f, name, c, d) ==
    LET parsed == Solc(f, c, d) IN
    IF ~parsed.ok THEN [kind |-> "err", msg |-> "solc", solc |-> parsed]
    ELSE
      LET chosen == ChooseContract(Select(SetToSeq(parsed.contracts), f, MatchName(f, name)))
          co == chosen.out
      IN
      IF chosen.fatal THEN [kind |-> "fatal", msg |-> "contract", solc |-> parsed]
      ELSE IF co.DevDoc # "json" THEN [kind |-> "err", msg |-> "devdoc", solc |-> parsed]
      ELSE IF co.UserDoc # "json" THEN [kind |-> "err", msg |-> "userdoc", solc |-> parsed]
      ELSE IF co.Bin # "hex" THEN [kind |-> "err", msg |-> "bytecode", solc |-> parsed]
      ELSE [kind |-> "ok", solc |-> parsed,
            obj |-> [ABI |-> co.ABI, DevDoc |-> <<"dev", co.key>>, UserDoc |-> <<"user", co.key>>,
                     Name |-> name, Bytecode |-> <<"bin", co.key>>]]

\* gob.NewEncoder(buf).Encode(obj): the bytes of the cache file
GobEncode(obj, hash) == [kind |-> "gob", desc |-> obj, Hash |-> hash]

\* gob.NewDecoder(...).Decode(&obj): an error unless the bytes are a gob of a cacheObject
GobDecode(bytes) ==
    IF bytes.kind = "gob" THEN [err |-> FALSE, desc |-> bytes.desc, Hash |-> bytes.Hash]
    ELSE [err |-> TRUE]

\* bytes.Equal(buildHash, obj.Hash), inverted
CacheHitInverted(buildHash, storedHash) == buildHash # storedHash

\* bytes.Equal(buildHash, obj.Hash)
CacheHit(buildHash, storedHash) == buildHash = storedHash

Absent == [kind |-> "absent"]
Unreadable == [kind |-> "unreadable"]
Garbage == [kind |-> "garbage"]
NotRun == [ok |-> FALSE, contracts |-> {}]

\* the cache lookup with a file that cannot be read or decoded taken for a miss
CacheLookupLenient(old, buildHash) ==
    IF old.kind # "gob" THEN [res |-> "miss"]
    ELSE IF CacheHit(buildHash, old.Hash) THEN [res |-> "hit", obj |-> old.desc]
    ELSE [res |-> "miss"]

\* the cache half of the closure (main.go:238-261): cfg.CacheFile finds the
\* file or not; it is read, decoded and its hash compared
CacheLookup(old, buildHash) ==
    IF old.kind = "absent" THEN [res |-> "miss"]
    ELSE IF old.kind = "unreadable" THEN [res |-> "err", msg |-> "reading cached build output"]
    ELSE LET dec == GobDecode(old) IN
         IF dec.err THEN [res |-> "err", msg |-> "decoding cached build output"]
         ELSE IF CacheHit(buildHash, dec.Hash) THEN [res |-> "hit", obj |-> dec.desc]
         ELSE [res |-> "miss"]

\* the build half of the closure (main.go:262-281); wr is what the file system
\* does with the write: "ok", "ensureFail", "writeFail" (file untouched) or
\* "writeTorn" (file truncated)
BuildAndSave(f, name, c, d, old, wr) ==
    LET r == abigen(f, name, c, d)
        done == [compiled |-> TRUE, solc |-> r.solc]
    IN
    IF r.kind # "ok"
    THEN [outcome |-> r.kind, msg |-> r.msg, file |-> old] @@ done
    ELSE IF wr = "ensureFail"
    THEN [outcome |-> "err", msg |-> "creating cache file", file |-> old] @@ done
    ELSE IF wr = "writeFail"
    THEN [outcome |-> "err", msg |-> "writing build output to cache", file |-> old] @@ done
    ELSE IF wr = "writeTorn"
    THEN [outcome |-> "err", msg |-> "writing build output to cache", file |-> Garbage] @@ done
    ELSE [outcome |-> "ok", msg |-> "", obj |-> r.obj, file |-> GobEncode(r.obj, SHA256(c))] @@ done

\* the closure of mainErr that yields obj (main.go:228-282)
GetOrBuild(f, name, c, d, old, wr) ==
    LET notRun == [compiled |-> FALSE, solc |-> NotRun, file |-> old] IN
    IF c = "missing"
    THEN [outcome |-> "err", msg |-> "reading source"] @@ notRun
    ELSE LET found == CacheLookup(old, SHA256(c)) IN
         CASE found.res = "err" -> [outcome |-> "err", msg |-> found.msg] @@ notRun
           [] found.res = "hit" -> [outcome |-> "ok", msg |-> "", obj |-> found.obj] @@ notRun
           [] OTHER             -> BuildAndSave(f, name, c, d, old, wr)

\* exit code of a run that ends in get-or-build: main prints the error and
\* calls os.Exit(1); fatalf calls exit(1); "ok" goes on to the command
ExitCodeOf(outcome) == IF outcome = "ok" THEN [exited |-> FALSE] ELSE [exited |-> TRUE, code |-> 1]

CacheFiles == { Fname(f, n) : f \in SolFiles, n \in ContractNames }

NoRun == [name |-> <<>>, outcome |-> "none"]

KeysIdle ==
    startEnv = <<>> /\ environ = <<>> /\ keysReady = FALSE /\ parsedLog = <<>>

NumIdle ==
    /\ numIn = <<>> /\ numAtto = [st |-> "none"] /\ numShown = [st |-> "none"] /\ numBack = [st |-> "none"]
    /\ KeysIdle

DocIdle == docDev = <<>> /\ docUser = <<>> /\ docCmd = [st |-> "none"]

SynthIdle ==
    /\ abiMethods = {} /\ rootCmds = <<>> /\ calls = <<>> /\ transactions = <<>>
    /\ synthesized = FALSE
    /\ DocIdle

NoWallet ==
    [wallet |-> FALSE, account |-> FALSE, session |-> "none", opened |-> FALSE,
     opens |-> 0, derives |-> 0, closes |-> 0]

NoTx == [err |-> FALSE, signed |-> FALSE, sent |-> FALSE, logs |-> <<>>]

RunIdle ==
    /\ cfg = [cmd |-> "none"] /\ pc = 0 /\ exit = [done |-> FALSE] /\ workDir = FALSE
    /\ client = FALSE /\ deployment = FALSE /\ hw = NoWallet /\ exitFuncs = <<>>
    /\ tx = NoTx /\ events = <<>>

InitCache ==
    /\ NumIdle /\ SynthIdle /\ RunIdle
    /\ solFile \in SolFiles
    /\ contractName \in ContractNames
    /\ source \in Contents
    /\ dep \in 0..MaxDep
    /\ cache = [k \in CacheFiles |-> Absent]
    /\ built = [k \in CacheFiles |-> [written |-> FALSE]]
    /\ last = NoRun

\* one run of poke up to the end of get-or-build
Run(wr) ==
    LET name == contractName
        k == Fname(solFile, name)
        r == GetOrBuild(solFile, name, source, dep, cache[k], wr)
    IN  /\ cache' = [cache EXCEPT ![k] = r.file]
        /\ built' = IF r.outcome = "ok" /\ r.compiled
                    THEN [built EXCEPT ![k] = [written |-> TRUE, obj |-> r.obj]] ELSE built
        /\ last' = [name |-> name, src |-> source, dep |-> dep,
                    preFile |-> cache[k], preBuilt |-> built[k],
                    exit |-> ExitCodeOf(r.outcome)] @@ r
        /\ UNCHANGED <<solFile, contractName, source, dep>>
        /\ UNCHANGED <<numVars, synthVars, runVars>>

\* the user edits the source file (or removes it)
EditSource(c) ==
    /\ c # source
    /\ source' = c
    /\ UNCHANGED <<solFile, contractName, dep, cache, built, last>>
    /\ UNCHANGED <<numVars, synthVars, runVars>>

\* an imported file changes
EditDep(d) ==
    /\ d # dep
    /\ dep' = d
    /\ UNCHANGED <<solFile, contractName, source, cache, built, last>>
    /\ UNCHANGED <<numVars, synthVars, runVars>>

\* the cache file is damaged or made unreadable outside of poke
DamageCache(how) ==
    LET k == Fname(solFile, contractName) IN
    /\ cache[k].kind \notin {"absent", how}
    /\ cache' = [cache EXCEPT ![k] = [kind |-> how]]
    /\ UNCHANGED <<solFile, contractName, source, dep, built, last>>
    /\ UNCHANGED <<numVars, synthVars, runVars>>

NextCache ==
    \/ \E wr \in {"ok", "ensureFail", "writeFail", "writeTorn"} : Run(wr)
    \/ \E c \in Contents : EditSource(c)
    \/ \E d \in 0..MaxDep : EditDep(d)
    \/ \E how \in {"garbage", "unreadable"} : DamageCache(how)

SpecCache == InitCache /\ [][NextCache]_vars

-----------------------------------------------------------------------------
(* Claims about the build cache and abigen, checked under SpecCache        *)

Ran == last.outcome # "none"

\* the cache file of the last run held, before the run, a decodable entry
\* whose hash is the SHA-256 of the source the run read
EntryMatchesSource == Ran /\ last.preFile.kind = "gob" /\ last.preFile.Hash = SHA256(last.src)

\* C1: a run that finds a decodable cache entry whose stored hash is the
\* SHA-256 of the current source does not invoke the compiler and returns the
\* description that the build which wrote the entry returned.
C1_CacheHit ==
    EntryMatchesSource =>
        /\ ~last.compiled
        /\ last.outcome = "ok"
        /\ last.preBuilt.written
        /\ last.obj = last.preBuilt.obj

\* a hit that returns the description built from an older version of the imports
C1_Witness ==
    /\ EntryMatchesSource
    /\ last.outcome = "ok"
    /\ last.obj.ABI[4] # last.dep

\* the cache file of the last run held a decodable entry stored for other source bytes
EntryIsStale ==
    Ran /\ last.src # "missing" /\ last.preFile.kind = "gob" /\ last.preFile.Hash # SHA256(last.src)

\* the description a direct build of the source of the last run returns
FreshBuild == abigen(solFile, last.name, last.src, last.dep)

EntryUnusable == Ran /\ last.src # "missing" /\ last.preFile.kind \in {"unreadable", "garbage"}

\* C3 as stated: a cache file that cannot be read or decoded is treated like
\* a miss: the compiler is invoked and the run does not end with the cache error.
C3_FallbackToBuild ==
    EntryUnusable =>
        /\ last.compiled
        /\ last.msg \notin {"reading cached build output", "decoding cached build output"}

\* C3 amended: a cache file that is found but cannot be read or decoded ends
\* the run with that error and exit code 1; the compiler is not invoked and
\* the cache file is left as it was.
C3_CacheErrorEndsRun ==
    EntryUnusable =>
        /\ ~last.compiled
        /\ last.outcome = "err"
        /\ last.msg = (IF last.preFile.kind = "unreadable"
                       THEN "reading cached build output" ELSE "decoding cached build output")
        /\ last.exit = [exited |-> TRUE, code |-> 1]
        /\ last.file = last.preFile
        /\ "obj" \notin DOMAIN last

\* a run over a cache file torn by an earlier failed write of poke itself
C3_Witness ==
    /\ EntryUnusable
    /\ last.preFile.kind = "garbage"
    /\ last.preBuilt.written
    /\ last.outcome = "err"

\* the keys of the compiler output of the last run of the form P, or P:...,
\* where P is file ":" contract
KeysFor(file, contract) ==
    LET P == file \o <<":">> \o contract IN
    { e.key : e \in { x \in last.solc.contracts :
                        /\ Len(x.key) >= Len(P)
                        /\ SubSeq(x.key, 1, Len(P)) = P
                        /\ (Len(x.key) = Len(P) \/ x.key[Len(P) + 1] = ":") } }

\* a path without its directories and its extension
Stem(path) ==
    LET parts == Split(path, "/")
        base == parts[Len(parts)]
    IN  IF Len(base) > 0 /\ base[Len(base)] \in {".sol", ".json"}
        THEN SubSeq(base, 1, Len(base) - 1) ELSE base

\* the target name: -c, or the file name without ".sol"
TargetName == IF last.name # <<>> THEN last.name ELSE Stem(solFile)

\* the last run invoked the compiler and decoded its output
Compiled == Ran /\ last.compiled /\ last.solc.ok

\* the keys whose file part has the stem of the source and whose contract
\* part is the target name
KeysByStem ==
    { e.key : e \in { x \in last.solc.contracts :
                        LET parts == Split(x.key, ":") IN
                        /\ Len(parts) >= 2
                        /\ Stem(parts[1]) = Stem(solFile)
                        /\ parts[2] = TargetName } }

\* C5 as stated: normalization passes the choice of the contract exactly when
\* one key has a file part matching the source's basename without extension
\* and the target name as contract part.
C5_MatchByBasename ==
    Compiled => ((Cardinality(KeysByStem) = 1) <=> (last.outcome # "fatal"))

\* C5 amended: abigen passes the choice of the contract exactly when exactly
\* one key has a file part equal to the source path as given and a contract
\* part equal to the target name; with none or several it ends fatally with
\* exit code 1, returns no description and leaves the cache file as it was.
C5_MatchByPath ==
    Compiled =>
        LET n == Cardinality(KeysFor(solFile, TargetName)) IN
        /\ (n = 1) <=> (last.outcome # "fatal")
        /\ n # 1 =>
              /\ last.exit = [exited |-> TRUE, code |-> 1]
              /\ "obj" \notin DOMAIN last
              /\ last.file = last.preFile

\* the compiler output holds two results for the contract and the run ends fatally
C5_Witness ==
    /\ Compiled
    /\ Cardinality(KeysFor(solFile, TargetName)) = 2
    /\ last.outcome = "fatal"

-----------------------------------------------------------------------------
(* The uint256 converter: parseToAtto, truncateDecimal, toDisplay          *)
(* A big.Int is [neg, mag]: mag its decimal digits without leading zeros,  *)
(* <<>> for zero. A decimal.Decimal is [value, exp]: value * 10^exp.       *)

\* decimals of parseToAtto
Decimals == 18

\* longest integer part of an argument
MaxIntDigits == 2

\* longest tail of a fractional part, after its leading zeros
MaxFracTail == 2

DigitVal ==
    [c \in {"0", "1", "2", "3", "4", "5", "6", "7", "8", "9"} |->
        CASE c = "0" -> 0 [] c = "1" -> 1 [] c = "2" -> 2 [] c = "3" -> 3 [] c = "4" -> 4
          [] c = "5" -> 5 [] c = "6" -> 6 [] c = "7" -> 7 [] c = "8" -> 8 [] c = "9" -> 9]

DigitChar == <<"1", "2", "3", "4", "5", "6", "7", "8", "9">>

Zeros(n) == [i \in 1..n |-> 0]

RECURSIVE StripLeadingZeros(_)
StripLeadingZeros(m) ==
    IF m # <<>> /\ Head(m) = 0 THEN StripLeadingZeros(Tail(m)) ELSE m

RECURSIVE TrimRightZeros(_)
\* strings.TrimRight(s, "0")
TrimRightZeros(s) ==
    IF s # <<>> /\ s[Len(s)] = "0" THEN TrimRightZeros(SubSeq(s, 1, Len(s) - 1)) ELSE s

\* (*big.Int).SetString(s, 10): an optional sign and at least one digit
SetString(s) ==
    LET signed == s # <<>> /\ Head(s) \in {"+", "-"}
        digits == IF signed THEN Tail(s) ELSE s
    IN  IF digits = <<>> \/ \E i \in 1..Len(digits) : digits[i] \notin DOMAIN DigitVal
        THEN [ok |-> FALSE]
        ELSE LET mag == StripLeadingZeros([i \in 1..Len(digits) |-> DigitVal[digits[i]]])
             IN  [ok |-> TRUE, neg |-> (signed /\ Head(s) = "-" /\ mag # <<>>), mag |-> mag]

\* decimal.NewFromString(value), for a value without an exponent part
NewFromString(value) ==
    LET parts == Split(value, ".")
        decimalPart == TrimRightZeros(parts[2])
        intString == IF Len(parts) = 1 THEN value ELSE parts[1] \o decimalPart
        exp == IF Len(parts) = 1 THEN 0 ELSE 0 - Len(decimalPart)
        dValue == SetString(intString)
    IN  IF Len(parts) > 2 \/ ~dValue.ok THEN [ok |-> FALSE]
        ELSE [ok |-> TRUE, value |-> [neg |-> dValue.neg, mag |-> dValue.mag], exp |-> exp]

\* d.Shift(shift) with the shift subtracted
ShiftDown(d, shift) == [d EXCEPT !.exp = d.exp - shift]

\* d.Shift(shift): the exponent moves, the coefficient stays
Shift(d, shift) == [d EXCEPT !.exp = d.exp + shift]

\* coeff.Mul(coeff, 10^exp)
MulPow10(x, exp) == IF x.mag = <<>> THEN x ELSE [x EXCEPT !.mag = x.mag \o Zeros(exp)]

RECURSIVE Inc(_)
\* the magnitude plus one
Inc(m) ==
    IF m = <<>> THEN <<1>>
    ELSE IF m[Len(m)] < 9 THEN [m EXCEPT ![Len(m)] = m[Len(m)] + 1]
    ELSE Inc(SubSeq(m, 1, Len(m) - 1)) \o <<0>>

\* coeff.Div(coeff, 10^k): big.Int.Div is Euclidean division, the remainder
\* is never negative, so a negative coeff that 10^k does not divide yields
\* the quotient below, away from zero
DivPow10(x, k) ==
    LET n == Len(x.mag)
        q == IF n > k THEN SubSeq(x.mag, 1, n - k) ELSE <<>>
        r == IF n > k THEN SubSeq(x.mag, n - k + 1, n) ELSE x.mag
        exact == \A i \in 1..Len(r) : r[i] = 0
        mag == IF x.neg /\ ~exact THEN Inc(q) ELSE q
    IN  [neg |-> (x.neg /\ mag # <<>>), mag |-> mag]

\* truncateDecimal(d)
truncateDecimal(d) ==
    IF d.exp >= 0 THEN MulPow10(d.value, d.exp) ELSE DivPow10(d.value, 0 - d.exp)

\* parseToAtto(s): st = "fatal" is fatalf("Expected a decimal number ...")
parseToAtto(s) ==
    LET prefixed == HasPrefix(s, "int:")
        text == IF prefixed THEN Tail(s) ELSE s
        decimals == IF prefixed THEN 0 ELSE Decimals
        d == NewFromString(text)
    IN  IF ~d.ok THEN [st |-> "fatal"]
        ELSE LET z == truncateDecimal(Shift(d, decimals))
             IN  [st |-> "ok", neg |-> z.neg, mag |-> z.mag]

\* (*big.Int).String()
IntString(x) ==
    IF x.mag = <<>> THEN <<"0">>
    ELSE (IF x.neg THEN <<"-">> ELSE <<>>)
         \o [i \in 1..Len(x.mag) |-> IF x.mag[i] = 0 THEN "0" ELSE DigitChar[x.mag[i]]]

\* toDisplay(i): decimal.NewFromBigInt(i, 0).String()
toDisplay(x) == IntString(x)

RECURSIVE SeqsUpTo(_, _)
\* the sequences over S of length at most n
SeqsUpTo(S, n) ==
    IF n = 0 THEN { <<>> }
    ELSE LET shorter == SeqsUpTo(S, n - 1)
         IN  shorter \cup { Append(t, x) : t \in shorter, x \in S }

ZeroChars(n) == [i \in 1..n |-> "0"]

\* integer parts, fractional parts ("." and digits, the digits reaching up to
\* and beyond the 18th place) and the texts made of them
IntTexts == SeqsUpTo({"0", "1", "9"}, MaxIntDigits) \ { <<>> }
FracTexts ==
    { <<>> } \cup
    { <<".">> \o ZeroChars(z) \o t :
        z \in {0, Decimals - 2, Decimals - 1, Decimals}, t \in SeqsUpTo({"0", "5"}, MaxFracTail) }
DecimalTexts ==
    { p \o sg \o i \o f : p \in { <<>>, <<"int:">> }, sg \in { <<>>, <<"-">> },
                          i \in IntTexts, f \in FracTexts }

\* texts that are no decimal numbers
BadTexts == { <<>>, <<".">>, <<"-">>, <<"x">>, <<"1", ".", "5", ".", "0">>, <<"int:">> }

CacheIdle ==
    /\ solFile = <<>> /\ contractName = <<>> /\ source = "missing" /\ dep = 0
    /\ cache = <<>> /\ built = <<>> /\ last = NoRun

InitNum ==
    /\ CacheIdle /\ SynthIdle /\ RunIdle
    /\ numIn \in DecimalTexts \cup BadTexts
    /\ numAtto = [st |-> "none"]
    /\ numShown = [st |-> "none"]
    /\ numBack = [st |-> "none"]
    /\ KeysIdle

\* the uint256 parser on a command-line argument (main.go:63-65)
ParseArg ==
    /\ numAtto.st = "none"
    /\ numAtto' = parseToAtto(numIn)
    /\ UNCHANGED <<numIn, numShown, numBack>>
    /\ UNCHANGED keyVars
    /\ UNCHANGED <<cacheVars, synthVars, runVars>>

\* the uint256 toString on the value (main.go:66-68)
Display ==
    /\ numAtto.st = "ok" /\ numShown.st = "none"
    /\ numShown' = [st |-> "ok", text |-> toDisplay(numAtto)]
    /\ UNCHANGED <<numIn, numAtto, numBack>>
    /\ UNCHANGED keyVars
    /\ UNCHANGED <<cacheVars, synthVars, runVars>>

\* the printed value given back as an argument with the "int:" prefix
ParseShown ==
    /\ numShown.st = "ok" /\ numBack.st = "none"
    /\ numBack' = parseToAtto(<<"int:">> \o numShown.text)
    /\ UNCHANGED <<numIn, numAtto, numShown>>
    /\ UNCHANGED keyVars
    /\ UNCHANGED <<cacheVars, synthVars, runVars>>

NextNum == ParseArg \/ Display \/ ParseShown

SpecNum == InitNum /\ [][NextNum]_vars

-----------------------------------------------------------------------------
(* Claims about the uint256 converter, checked under SpecNum               *)

\* the argument without the "int:" prefix, its sign, and its digits before
\* and after the point
ArgText == IF HasPrefix(numIn, "int:") THEN Tail(numIn) ELSE numIn
ArgNegative == HasPrefix(ArgText, "-")
ArgBody == IF ArgNegative THEN Tail(ArgText) ELSE ArgText
ArgIntDigits == Split(ArgBody, ".")[1]
ArgFracDigits == IF Len(Split(ArgBody, ".")) = 2 THEN Split(ArgBody, ".")[2] ELSE <<>>

\* the number of decimal places the argument is scaled by
ArgScale == IF HasPrefix(numIn, "int:") THEN 0 ELSE Decimals

\* the integer with the magnitude floor(|d| * 10^scale) and the sign of d:
\* the digits of d up to the scale-th place
TruncatedTowardZero ==
    LET kept == SubSeq(ArgFracDigits \o ZeroChars(ArgScale), 1, ArgScale)
        all == ArgIntDigits \o kept
        mag == StripLeadingZeros([i \in 1..Len(all) |-> DigitVal[all[i]]])
    IN  [st |-> "ok", neg |-> (ArgNegative /\ mag # <<>>), mag |-> mag]

\* d * 10^scale is no integer: a digit other than 0 beyond the scale-th place
ArgInexact ==
    \E i \in 1..Len(ArgFracDigits) : i > ArgScale /\ ArgFracDigits[i] # "0"

\* a text with the zeros at the end of its fractional part removed, and the
\* point when nothing follows it
NormalizeTrailingZeros(t) ==
    LET parts == Split(t, ".")
        frac == TrimRightZeros(parts[2])
    IN  IF Len(parts) # 2 THEN t
        ELSE IF frac = <<>> THEN parts[1] ELSE parts[1] \o <<".">> \o frac

\* the argument is a decimal number d with at most 18 fractional digits and no prefix
AtMost18Places ==
    /\ numAtto.st = "ok"
    /\ ~HasPrefix(numIn, "int:")
    /\ Len(ArgFracDigits) <= Decimals

\* C6 as stated: formatting the parsed value of a decimal string d with at
\* most 18 fractional digits yields d again, up to trailing zeros.
C6_RoundTrip ==
    (AtMost18Places /\ numShown.st = "ok") =>
        NormalizeTrailingZeros(numShown.text) = NormalizeTrailingZeros(numIn)

\* C6 amended: for a decimal string d with at most 18 fractional digits,
\* toDisplay(parseToAtto(d)) is the integer d * 10^18 in decimal digits, and
\* parsing that text with the "int:" prefix yields parseToAtto(d) again.
C6_DisplaysAtto ==
    /\ (AtMost18Places /\ numShown.st = "ok") => numShown.text = IntString(TruncatedTowardZero)
    /\ (AtMost18Places /\ numBack.st # "none") => numBack = numAtto

\* a value with a digit in the 18th place has gone through parse, format and parse
C6_Witness ==
    /\ AtMost18Places
    /\ Len(ArgFracDigits) = Decimals
    /\ ArgFracDigits[Decimals] # "0"
    /\ numBack.st = "ok"
    /\ numShown.text # numIn

\* C7: a decimal d, positive or negative, whose scaled value is no integer
\* is parsed to the integer of magnitude floor(|d| * 10^18) (10^0 with the
\* "int:" prefix) with the sign of d.
C7_TruncatesTowardZero ==
    (numAtto.st = "ok" /\ ArgInexact) => numAtto = TruncatedTowardZero

-----------------------------------------------------------------------------
(* Command synthesis (main.go:299-405)                                     *)
(* A name is the sequence of its bytes; a method is [name, const, nIn].    *)

\* largest number of methods of an interface
MaxMethods == 3

\* "balance", "balanceOf", "burn", "mint", "transfer"
MethodNames ==
    { <<98, 97, 108, 97, 110, 99, 101>>,
      <<98, 97, 108, 97, 110, 99, 101, 79, 102>>,
      <<98, 117, 114, 110>>,
      <<109, 105, 110, 116>>,
      <<116, 114, 97, 110, 115, 102, 101, 114>> }

\* the utilities of main.go:371-378, by name
Utilities == <<"show-eth", "send-eth", "address", "show-gas", "deploy", "code-at">>

RECURSIVE Less(_, _)
\* a < b on Go strings: bytewise lexicographic
Less(a, b) ==
    IF b = <<>> THEN FALSE
    ELSE IF a = <<>> THEN TRUE
    ELSE IF Head(a) # Head(b) THEN Head(a) < Head(b)
    ELSE Less(Tail(a), Tail(b))

RECURSIVE Insert(_, _)
Insert(c, sorted) ==
    IF sorted = <<>> THEN <<c>>
    ELSE IF Less(c.name, Head(sorted).name) THEN <<c>> \o sorted
    ELSE <<Head(sorted)>> \o Insert(c, Tail(sorted))

\* the block left in the order of the appends
Unsorted(cmds) == cmds

RECURSIVE SortByName(_)
\* sort.Slice(cmds, func(i, j) { return cmds[i].Name() < cmds[j].Name() })
SortByName(cmds) ==
    IF cmds = <<>> THEN <<>> ELSE Insert(Head(cmds), SortByName(Tail(cmds)))

\* the orders in which "for name, method := range theABI.Methods" may visit
\* the methods
IterationOrders(S) ==
    { o \in [1..Cardinality(S) -> S] : \A i, j \in 1..Cardinality(S) : i # j => o[i] # o[j] }

\* the cobra.Command of a method (main.go:327-363): Name() is the first word
\* of Use, Args is cobra.ExactArgs(len(method.Inputs))
Command(method) == [name |-> method.name, const |-> method.const, args |-> method.nIn]

IsConst(c) == c.const
IsMutating(c) == ~c.const

\* the interfaces abi.JSON may return: at most one method per name
Interfaces ==
    { ms \in SUBSET [name : MethodNames, const : BOOLEAN, nIn : {2}] :
        /\ Cardinality(ms) <= MaxMethods
        /\ \A m1, m2 \in ms : m1.name = m2.name => m1 = m2 }

InitSynth ==
    /\ CacheIdle /\ NumIdle /\ RunIdle
    /\ abiMethods \in Interfaces
    /\ rootCmds = <<>> /\ calls = <<>> /\ transactions = <<>>
    /\ synthesized = FALSE
    /\ DocIdle

\* mainErr from the loop over theABI.Methods to the sorted blocks (main.go:299-405)
Synthesize ==
    /\ ~synthesized
    /\ \E order \in IterationOrders(abiMethods) :
          LET cmds == [i \in 1..Len(order) |-> Command(order[i])] IN
          /\ rootCmds' = cmds
          /\ calls' = SortByName(SelectSeq(cmds, IsConst))
          /\ transactions' = SortByName(SelectSeq(cmds, IsMutating))
    /\ synthesized' = TRUE
    /\ UNCHANGED abiMethods
    /\ UNCHANGED docVars
    /\ UNCHANGED <<cacheVars, numVars, runVars>>

NextSynth == Synthesize

SpecSynth == InitSynth /\ [][NextSynth]_vars

-----------------------------------------------------------------------------
(* Claims about command synthesis, checked under SpecSynth                 *)

\* a precedes b in lexicographic order: b continues a, or they differ first
\* at a place where a has the smaller byte
LexBefore(a, b) ==
    \E k \in 1..Len(b) :
        /\ k <= Len(a) + 1
        /\ \A i \in 1..(k - 1) : a[i] = b[i]
        /\ (k = Len(a) + 1 \/ a[k] < b[k])

StrictlyAscending(cmds) ==
    \A i, j \in 1..Len(cmds) : i < j => LexBefore(cmds[i].name, cmds[j].name)

Occurrences(cmds, name) == Cardinality({ i \in 1..Len(cmds) : cmds[i].name = name })

\* C10: every method yields exactly one command, listed under the calls if
\* and only if the method is constant and under the transactions otherwise;
\* each of the two listings is in strictly ascending order of the names,
\* whatever the order in which the method map was visited.
C10_PartitionAndOrder ==
    synthesized =>
        /\ \A m \in abiMethods :
              /\ Occurrences(rootCmds, m.name) = 1
              /\ Occurrences(calls, m.name) = (IF m.const THEN 1 ELSE 0)
              /\ Occurrences(transactions, m.name) = (IF m.const THEN 0 ELSE 1)
        /\ Len(rootCmds) = Cardinality(abiMethods)
        /\ Len(calls) + Len(transactions) = Cardinality(abiMethods)
        /\ StrictlyAscending(calls)
        /\ StrictlyAscending(transactions)

\* two calls and two transactions, the method map visited in descending order
C10_Witness ==
    /\ synthesized
    /\ Len(calls) >= 2
    /\ Len(transactions) >= 1
    /\ Len(rootCmds) = MaxMethods
    /\ \A i \in 1..(Len(rootCmds) - 1) : LexBefore(rootCmds[i + 1].name, rootCmds[i].name)

-----------------------------------------------------------------------------
(* The documentation of a method's command (main.go:310-326). A text is a  *)
(* sequence of characters.                                                 *)

\* the longest text of a notice or a detail
MaxDocLen == 3

\* the texts over the characters cs of at most n characters
Texts(cs, n) == UNION { [1..k -> cs] : k \in 0..n }

\* the notices: words, periods, line ends
Notices == Texts({"n", ".", "\n"}, MaxDocLen)

\* the details
Details == Texts({"d"}, MaxDocLen - 1)

\* short: the detail, or else the notice up to its first line end and then
\* up to its first period
Short(dev, user) ==
    IF dev # <<>> THEN dev ELSE Split(Split(user, "\n")[1], ".")[1]

\* long with the detail before the notice
LongDetailFirst(dev, user) ==
    IF dev = <<>> THEN user
    ELSE IF user = <<>> THEN dev
    ELSE dev \o <<"\n", "\n">> \o user

\* long: the notice, then the detail if there is one, a blank line between
\* the two if there is a notice
Long(dev, user) ==
    LET blank == IF user # <<>> THEN <<"\n", "\n">> ELSE <<>>
    IN  IF dev # <<>> THEN (user \o blank) \o dev ELSE user

InitDoc ==
    /\ CacheIdle /\ NumIdle /\ RunIdle
    /\ abiMethods = {} /\ rootCmds = <<>> /\ calls = <<>> /\ transactions = <<>>
    /\ synthesized = FALSE
    /\ docDev \in Details
    /\ docUser \in Notices
    /\ docCmd = [st |-> "none"]

\* the block that sets short and long, and the fields of the command
Document ==
    /\ docCmd.st = "none"
    /\ docCmd' = [st |-> "built", short |-> Short(docDev, docUser), long |-> Long(docDev, docUser)]
    /\ UNCHANGED <<docDev, docUser>>
    /\ UNCHANGED <<abiMethods, rootCmds, calls, transactions, synthesized>>
    /\ UNCHANGED <<cacheVars, numVars, runVars>>

NextDoc == Document

SpecDoc == InitDoc /\ [][NextDoc]_vars

\* C17 as stated: the detail, a blank line, the notice when both are present;
\* the one that is present otherwise
C17_DetailFirst ==
    docCmd.st = "built" =>
        docCmd.long =
            IF docDev # <<>> /\ docUser # <<>> THEN docDev \o <<"\n", "\n">> \o docUser
            ELSE IF docDev # <<>> THEN docDev
            ELSE docUser

\* C17: for a method with both a developer detail and a user notice, the
\* long documentation of its command is the user notice, a blank line, then
\* the developer detail (notice first); with only one of the two present it
\* is exactly that text.
C17_NoticeFirst ==
    docCmd.st = "built" =>
        docCmd.long =
            IF docDev # <<>> /\ docUser # <<>> THEN docUser \o <<"\n", "\n">> \o docDev
            ELSE IF docDev # <<>> THEN docDev
            ELSE docUser

\* the command of a method with both texts has been built
C17_Witness ==
    docCmd.st = "built" /\ docDev # <<>> /\ docUser # <<>>

-----------------------------------------------------------------------------
(* The "@n" shorthand for addresses (part_003: defaultKeys, init, parseKey, *)
(* parseAddress). A private key is a tuple that names it, <<>> is the      *)
(* empty text, and the address of a key is the tuple <<"address of", key>>.*)

\* the largest n of the variables POKE_n of the model (the code has POKE_0..POKE_9)
MaxKeyIndex == 3

\* the largest number of calls of parseAddress in a run
MaxParses == 2

\* defaultKeys[i]
defaultKeys(i) == <<"defaultKeys", i>>

\* what POKE_n may hold when the process starts: nothing, a private key of
\* the user, text that is no private key
EnvValues(i) == {<<>>, <<"key of the user", i>>, <<"not a key">>}

IsKey(s) == Len(s) = 2

\* toAddress(key)
toAddress(key) == <<"address of", key>>

\* init() setting every POKE_n to its default key
initOverwriting(env) == [i \in DOMAIN env |-> defaultKeys(i)]

\* init(): POKE_n is set to defaultKeys[n] where it is empty or unset
init(env) == [i \in DOMAIN env |-> IF env[i] = <<>> THEN defaultKeys(i) ELSE env[i]]

\* parseKey("@n") in the environment env: a variable that is unset, empty
\* or no private key ends in fatalf
parseKeyAt(env, n) ==
    LET s == IF n \in DOMAIN env THEN env[n] ELSE <<>>
    IN  IF IsKey(s) THEN [st |-> "ok", key |-> s] ELSE [st |-> "fatal", key |-> <<>>]

\* parseAddress(s): "@n", or a hex address
parseAddress(env, arg) ==
    IF arg.at
    THEN LET k == parseKeyAt(env, arg.n)
         IN  IF k.st = "ok" THEN [st |-> "ok", addr |-> toAddress(k.key)]
             ELSE [st |-> "fatal", addr |-> <<>>]
    ELSE [st |-> "ok", addr |-> <<"address", arg.n>>]

\* the address arguments: "@0".. and a little past the defaults, and hex addresses
AddressArgs == [at : BOOLEAN, n : 0..(MaxKeyIndex + 1)]

InitKeys ==
    /\ CacheIdle /\ SynthIdle /\ RunIdle
    /\ numIn = <<>> /\ numAtto = [st |-> "none"] /\ numShown = [st |-> "none"]
    /\ numBack = [st |-> "none"]
    /\ startEnv \in { e \in [0..MaxKeyIndex -> UNION {EnvValues(i) : i \in 0..MaxKeyIndex}] :
                        \A i \in 0..MaxKeyIndex : e[i] \in EnvValues(i) }
    /\ environ = startEnv
    /\ keysReady = FALSE
    /\ parsedLog = <<>>

\* init() runs before main
RunInit ==
    /\ ~keysReady
    /\ environ' = init(environ)
    /\ keysReady' = TRUE
    /\ UNCHANGED <<startEnv, parsedLog>>
    /\ UNCHANGED <<numIn, numAtto, numShown, numBack>>
    /\ UNCHANGED <<cacheVars, synthVars, runVars>>

\* a call of parseAddress; a fatal result ends the process
ParseAddress ==
    /\ keysReady
    /\ Len(parsedLog) < MaxParses
    /\ \A i \in 1..Len(parsedLog) : parsedLog[i].res.st = "ok"
    /\ \E arg \in AddressArgs :
          parsedLog' = Append(parsedLog, [arg |-> arg, res |-> parseAddress(environ, arg)])
    /\ UNCHANGED <<startEnv, environ, keysReady>>
    /\ UNCHANGED <<numIn, numAtto, numShown, numBack>>
    /\ UNCHANGED <<cacheVars, synthVars, runVars>>

NextKeys == RunInit \/ ParseAddress

SpecKeys == InitKeys /\ [][NextKeys]_vars

\* the calls parseAddress("@3") of the run
AtThree == { i \in 1..Len(parsedLog) : parsedLog[i].arg = [at |-> TRUE, n |-> 3] }

\* C13 as stated: every parse of "@3" yields the address of defaultKeys[3]
C13_AtThreeIsDefaultKey ==
    \A i \in AtThree : parsedLog[i].res = [st |-> "ok", addr |-> toAddress(defaultKeys(3))]

\* C13: parsing "@3" yields the address of the key in POKE_3: that of
\* defaultKeys[3] when the process was started with POKE_3 unset or empty,
\* that of the key the process was started with otherwise; it is fatal when
\* POKE_3 was started with text that is no private key; and every parse of
\* "@3" in one run yields the same address.
C13_AtThreeFollowsEnvironment ==
    /\ \A i \in AtThree :
          parsedLog[i].res =
              IF startEnv[3] = <<>> THEN [st |-> "ok", addr |-> toAddress(defaultKeys(3))]
              ELSE IF IsKey(startEnv[3]) THEN [st |-> "ok", addr |-> toAddress(startEnv[3])]
              ELSE [st |-> "fatal", addr |-> <<>>]
    /\ \A i, j \in AtThree : parsedLog[i].res = parsedLog[j].res

\* "@3" was parsed twice in a run started with a key of the user in POKE_3
C13_Witness ==
    /\ Cardinality(AtThree) = 2
    /\ IsKey(startEnv[3])

-----------------------------------------------------------------------------
(* One run of the process: main, mainErr and the command handlers          *)
(* (main.go:28-35, 335-362, 412-414; part_003: the functions they call).   *)
(* A step takes the state st = [client, deployment, hw, exitFuncs, tx,     *)
(* events] to [st, end]: end = "next" (the call returned), "fatal" (fatal, *)
(* fatalf, check or exit(1) was reached) or "panic" (a Go runtime panic).  *)

\* largest number of logs in a receipt
MaxLogs == 2

\* largest number of inputs a method or the constructor declares
MaxInputs == 2

Cur ==
    [client |-> client, deployment |-> deployment, hw |-> hw,
     exitFuncs |-> exitFuncs, tx |-> tx, events |-> events]

Emit(st, e) == [st EXCEPT !.events = Append(@, e)]
Ok(st) == [st |-> st, end |-> "next"]

\* fatal(msg), fatalf(msg) and a failed check(err, msg), up to the call of exit(1)
Fatal(st, msg) == [st |-> Emit(st, msg), end |-> "fatal"]

\* a runtime panic (index out of range, nil dereference)
Panic(st) == [st |-> Emit(st, "panic"), end |-> "panic"]

\* an error returned by root.Execute() to mainErr and by mainErr to main
Error(st, msg) == [st |-> Emit(st, msg), end |-> "error"]

\* the continuation of a call that returned
Then(r, Rest(_)) == IF r.end = "next" THEN Rest(r.st) ELSE r

\* a request to the node on the open client
Request(st, what, result, msg) ==
    IF result = "ok" THEN Ok(Emit(st, what)) ELSE Fatal(Emit(st, what), msg)

\* atExit(f)
atExit(st, f) == [st EXCEPT !.exitFuncs = Append(@, f)]

RECURSIVE RunFuncs(_, _)
RunFuncs(st, fs) ==
    IF fs = <<>> THEN st
    ELSE RunFuncs(Emit([st EXCEPT !.hw.closes = @ + 1, !.hw.session = "closed"], "hw:close"),
                  Tail(fs))

\* runExitFuncs(): every registered function, here wallet.Close()
runExitFuncs(st) == RunFuncs(st, st.exitFuncs)

\* getNode()
getNode(st, env) ==
    IF st.client THEN Ok(st)
    ELSE IF env.dial = "ok" THEN Ok(Emit([st EXCEPT !.client = TRUE], "dial"))
    ELSE Fatal(Emit(st, "dial"), "Failed to connect to Ethereum node")

\* the hardware part of openHardwareWallet (part_003:90-128): the hubs, the
\* one wallet, Open, the PIN and the second Open, atExit
OpenWallet(st, env) ==
    LET listed == Emit(st, "hw:enumerate")
        first == Emit([listed EXCEPT !.hw.opens = @ + 1], "hw:open")
        waiting == [first EXCEPT !.hw.session = "handshake", !.hw.opened = TRUE]
        asked == Emit(waiting, "pin")
        second == Emit([asked EXCEPT !.hw.opens = @ + 1], "hw:open")
        Opened(x) == [atExit([x EXCEPT !.hw.session = "open", !.hw.opened = TRUE], "wallet.Close")
                        EXCEPT !.hw.wallet = TRUE]
    IN  CASE env.found = "hubErr" -> Fatal(listed, "calling usbwallet.NewLedgerHub()")
          [] env.found = "none"   -> Fatal(listed, "No hardware wallets found")
          [] env.found = "two"    -> Fatal(listed, "hardware wallets found, I don't know which to use")
          [] OTHER ->
               CASE env.open1 = "err" -> Fatal(first, "opening hardware wallet")
                 [] env.open1 = "ok"  -> Ok(Opened(first))
                 [] OTHER ->
                      IF env.pin = "err" THEN Fatal(asked, "getting PIN input")
                      ELSE IF env.open2 = "err" THEN Fatal(second, "opening hardware wallet")
                      ELSE Ok(Opened(second))

\* the account part of openHardwareWallet (part_003:130-151)
OpenAccount(st, path, env) ==
    IF path = "empty" THEN Fatal(st, "derivation-path flag is empty")
    ELSE IF path = "bad" THEN Fatal(st, "got invalid derivation-path")
    ELSE LET asked == Emit([st EXCEPT !.hw.derives = @ + 1], "hw:derive")
         IN  IF env.derive = "err" THEN Fatal(asked, "deriving account")
             ELSE Ok([asked EXCEPT !.hw.account = TRUE])

\* openHardwareWallet without the test of singletonWallet
openHardwareWalletAgain(st, path, env) ==
    LET Account(x) == OpenAccount(x, path, env)
    IN  Then(OpenWallet(st, env), Account)

\* openHardwareWallet()
openHardwareWallet(st, path, env) ==
    IF st.hw.wallet THEN Ok(st)
    ELSE LET Account(x) == OpenAccount(x, path, env)
         IN  Then(OpenWallet(st, env), Account)

\* getNetID()
getNetID(st, env) ==
    LET Ask(x) == Request(x, "req:netid", env.netid, "Failed to get Ethereum network id")
    IN  Then(getNode(st, env), Ask)

\* getGasPrice()
getGasPrice(st, gasprice, env) ==
    IF gasprice = 0
    THEN LET Ask(x) == Request(x, "req:gasprice", env.rpc, "retrieving gas price suggestion")
         IN  Then(getNode(st, env), Ask)
    ELSE Ok(st)

\* parseKey(from) and the first use of the key by its caller
\* (bind.NewKeyedTransactor, toAddress). A key that does not parse is
\* reported on stderr; fatalf follows only when the argument begins with
\* "@", otherwise the nil key is returned and the caller dereferences it.
parseKey(st, from) ==
    CASE from = "key"  -> Ok(st)
      [] from = "@bad" -> Fatal(Emit(st, "Failed to parse private key:"), "(From argument, which I expanded using the env var)")
      [] OTHER         -> Panic(Emit(st, "Failed to parse private key:"))

\* getTxnOpts()
getTxnOpts(st, c, henv, env) ==
    LET Price(x) == getGasPrice(x, c.gasprice, env)
    IN  IF c.from # "hardware" THEN Then(parseKey(st, c.from), Price)
        ELSE Then(openHardwareWallet(st, c.path, henv), Price)

\* getAddress()
getAddress(st, c, henv) ==
    IF c.from = "hardware" THEN openHardwareWallet(st, c.path, henv) ELSE parseKey(st, c.from)

\* getDeployment(abi)
getDeployment(st, c, env) ==
    IF st.deployment THEN Ok(st)
    ELSE IF c.address = "" THEN Fatal(st, "No address specified for the contract.")
    ELSE IF c.address = "bad" THEN Fatal(st, "invalid hex string")
    ELSE LET Bind(x) == Ok([x EXCEPT !.deployment = TRUE])
         IN  Then(getNode(st, env), Bind)

\* the hardware closure without its test of the sender
SignerUnchecked(st, c, env) ==
    IF c.from # "hardware" THEN Ok([Emit(st, "signed") EXCEPT !.tx.signed = TRUE])
    ELSE LET Sign(x) ==
                 IF env.sign = "ok"
                 THEN Ok([Emit(Emit(x, "hw:sign"), "signed") EXCEPT !.tx.signed = TRUE])
                 ELSE Ok([Emit(x, "hw:sign") EXCEPT !.tx.err = TRUE])
             checked == IF env.sender = "account" THEN Emit(st, "from = account.Address") ELSE st
         IN  Then(getNetID(Emit(checked, "out:Waiting for you to confirm on the hardware wallet..."), env), Sign)

\* txnOpts.Signer(signer, from, tx): the closure of getTxnOpts in hardware
\* mode, the keyed transactor otherwise. The sender env.sender is the
\* argument `from` its caller passes. An error of wallet.SignTx is
\* returned, not fatal.
Signer(st, c, env) ==
    IF c.from # "hardware" THEN Ok([Emit(st, "signed") EXCEPT !.tx.signed = TRUE])
    ELSE IF env.sender # "account" THEN Fatal(st, "unexpected from address.")
    ELSE LET Sign(x) ==
                 IF env.sign = "ok"
                 THEN Ok([Emit(Emit(x, "hw:sign"), "signed") EXCEPT !.tx.signed = TRUE])
                 ELSE Ok([Emit(x, "hw:sign") EXCEPT !.tx.err = TRUE])
             checked == Emit(st, "from = account.Address")
         IN  Then(getNetID(Emit(checked, "out:Waiting for you to confirm on the hardware wallet..."), env), Sign)

\* (*bind.BoundContract).Transact: nonce and gas estimate from the node, the
\* signer, SendTransaction; every error is returned
Transact(st, c, env) ==
    LET asked == Emit(st, "req:nonce")
        Send(x) ==
            IF x.tx.err THEN Ok(x)
            ELSE IF env.send = "ok" THEN Ok([Emit(x, "req:send") EXCEPT !.tx.sent = TRUE])
            ELSE Ok([Emit(x, "req:send") EXCEPT !.tx.err = TRUE])
    IN  IF env.rpc = "err" THEN Ok([asked EXCEPT !.tx.err = TRUE])
        ELSE Then(Signer(asked, c, env), Send)

\* a log of a receipt, by what the loop over abi.Events finds: an event
\* with the log's first topic that unpacks, one that does not unpack, no
\* event with that topic, or a log with no topic at all
LogKinds == {"decodes", "undecodable", "unknown", "notopics"}

RECURSIVE PrintLogs(_, _, _)
\* the loop over receipt.Logs (part_003:349-369): log.Topics[0] is read once
\* for each event of the ABI until one matches
PrintLogs(st, logs, abiEvents) ==
    IF logs = <<>> THEN Ok(st)
    ELSE LET l == Head(logs)
         IN  IF ~abiEvents THEN PrintLogs(st, Tail(logs), abiEvents)
             ELSE IF l = "notopics" THEN Panic(st)
             ELSE IF l = "decodes" THEN PrintLogs(Emit(st, "out:event"), Tail(logs), abiEvents)
             ELSE IF l = "undecodable" THEN PrintLogs(Emit(st, "out:decode error"), Tail(logs), abiEvents)
             ELSE PrintLogs(st, Tail(logs), abiEvents)

\* the printing of the events of a receipt (part_003:346-372)
PrintEvents(st, logs, abiEvents) ==
    IF Len(logs) > 0 THEN PrintLogs(Emit([st EXCEPT !.tx.logs = logs], "out:Done. Events:"), logs, abiEvents)
    ELSE Ok(Emit(st, "out:< Done. No events generated >"))

\* log without the test of receipt.Status
logIgnoringStatus(st, env) ==
    IF st.tx.err THEN Fatal(st, "failed")
    ELSE LET waited == Emit(st, "req:receipt")
         IN  IF env.mined = "err" THEN Fatal(waited, "waiting to be mined")
             ELSE PrintEvents(Emit(waited, IF env.status = "successful" THEN "receipt:successful"
                                           ELSE "receipt:failed"), env.logs, env.abiEvents)

\* log(name, tx, abi, err)
log(st, env) ==
    IF st.tx.err THEN Fatal(st, "failed")
    ELSE LET waited == Emit(st, "req:receipt")
         IN  IF env.mined = "err" THEN Fatal(waited, "waiting to be mined")
             ELSE IF env.status # "successful" THEN Fatal(Emit(waited, "receipt:failed"), "transaction reverted")
             ELSE PrintEvents([Emit(waited, "receipt:successful") EXCEPT !.deployment = TRUE],
                              env.logs, env.abiEvents)

\* what the hubs, the device and the user may answer
EnvHW ==
    [found : {"hubErr", "none", "one", "two"}, open1 : {"ok", "pin", "err"},
     pin : {"ok", "err"}, open2 : {"ok", "err"}, derive : {"ok", "err"}]

\* what the node may answer
EnvNode == [dial : {"ok", "err"}, rpc : {"ok", "err"}]
\* the sender is the one the contract binding passes to the signer
EnvTx ==
    [dial : {"ok"}, rpc : {"ok", "err"}, netid : {"ok", "err"}, sign : {"ok", "err"},
     send : {"ok", "err"}, sender : {"account", "other"}]

\* send-eth passes getAddress(), the address of the derived account
EnvSend ==
    [dial : {"ok"}, rpc : {"ok", "err"}, netid : {"ok", "err"}, sign : {"ok", "err"},
     sender : {"account"}]
\* the receipts the node may return and whether the ABI has events; a log
\* can have a matching event only if the ABI has one
Receipts == UNION { [1..n -> LogKinds] : n \in 0..MaxLogs }
EnvLog ==
    { e \in [mined : {"ok", "err"}, status : {"successful", "failed"}, logs : Receipts,
             abiEvents : BOOLEAN] :
        /\ ~e.abiEvents => \A i \in 1..Len(e.logs) : e.logs[i] \in {"unknown", "notopics"}
        /\ (e.mined = "err" \/ e.status = "failed") => e.logs = <<>> /\ e.abiEvents }

\* the command lines and environments of a run
AllConfigs ==
    [cmd : {"call", "transact", "deploy", "address", "send-eth"},
     from : {"key", "hardware", "badkey", "@bad"},
     address : {"", "hex", "bad"},
     declared : 1..MaxInputs,
     given : 0..(MaxInputs + 1),
     argsOK : BOOLEAN,
     types : {"ok", "noInput", "noOutput"},
     hasOutputs : BOOLEAN,
     gasprice : {0, 1},
     path : {"ok", "empty", "bad"}]

\* a setting the command never reads is held at one value
Configs ==
    { c \in AllConfigs :
        /\ c.cmd \notin {"call", "transact"} => c.address = "hex"
        /\ c.cmd \in {"address", "send-eth"} => c.declared = 1 /\ c.types = "ok"
        /\ c.cmd = "address" => c.argsOK
        /\ c.cmd # "call" => c.hasOutputs /\ c.types # "noOutput"
        /\ ~c.hasOutputs => c.types # "noOutput"
        /\ c.cmd \in {"call", "address"} => c.gasprice = 0
        /\ c.cmd = "call" => c.from = "key"
        /\ c.from # "hardware" => c.path = "ok" }

\* cobra.ExactArgs(n) counting the outputs of the method with its inputs
ExactArgsWithOutputs(c) ==
    CASE c.cmd = "address"  -> 0
      [] c.cmd = "send-eth" -> 2
      [] OTHER              -> c.declared + (IF c.hasOutputs THEN 1 ELSE 0)

\* the n of Args: cobra.ExactArgs(n) of the command: len(method.Inputs),
\* len(abi.Constructor.Inputs), 0 for address, 2 for send-eth
ExactArgs(c) ==
    CASE c.cmd = "address"  -> 0
      [] c.cmd = "send-eth" -> 2
      [] OTHER              -> c.declared

\* the validation of the arguments by cobra, then the calls of the handler
\* of the command, in the order of the code
Program ==
    CASE cfg.cmd = "call"     -> <<"ExactArgs", "parseInputs", "outType", "getDeployment", "Call">>
      [] cfg.cmd = "transact" -> <<"ExactArgs", "parseInputs", "getDeployment", "getTxnOpts", "Transact", "log">>
      [] cfg.cmd = "deploy"   -> <<"ExactArgs", "parseInputs", "getTxnOpts", "deployNode", "Deploy", "log", "printExport">>
      [] cfg.cmd = "address"  -> <<"ExactArgs", "printAddress">>
      [] cfg.cmd = "send-eth" -> <<"ExactArgs", "pendingNonce", "parseInputs", "getTxnOpts", "signEth", "sendEth">>
      [] OTHER                -> <<>>

\* the handler is at the call of op
At(op) == ~exit.done /\ pc \in 1..Len(Program) /\ Program[pc] = op

SetState(st) ==
    /\ client' = st.client
    /\ deployment' = st.deployment
    /\ hw' = st.hw
    /\ exitFuncs' = st.exitFuncs
    /\ tx' = st.tx
    /\ events' = st.events

\* the end of a step: the next call; exit(1), which runs the exit functions
\* and ends the process at once; or a panic, which runs the deferred calls of
\* mainErr (runExitFuncs, os.RemoveAll) and ends the process with code 2
Finish(r) ==
    /\ UNCHANGED cfg
    /\ UNCHANGED <<cacheVars, numVars, synthVars>>
    /\ CASE r.end = "next" ->
              /\ SetState(r.st)
              /\ pc' = pc + 1
              /\ UNCHANGED <<exit, workDir>>
         [] r.end = "fatal" ->
              /\ SetState(runExitFuncs(r.st))
              /\ exit' = [done |-> TRUE, code |-> 1, how |-> "exit"]
              /\ UNCHANGED <<pc, workDir>>
         [] r.end = "error" ->
              /\ SetState(runExitFuncs(r.st))
              /\ exit' = [done |-> TRUE, code |-> 1, how |-> "error"]
              /\ workDir' = FALSE
              /\ UNCHANGED pc
         [] OTHER ->
              /\ SetState(runExitFuncs(r.st))
              /\ exit' = [done |-> TRUE, code |-> 2, how |-> "panic"]
              /\ workDir' = FALSE
              /\ UNCHANGED pc

InitRun ==
    /\ CacheIdle /\ NumIdle /\ SynthIdle
    /\ cfg \in Configs
    /\ pc = 0 /\ exit = [done |-> FALSE] /\ workDir = FALSE
    /\ client = FALSE /\ deployment = FALSE /\ hw = NoWallet /\ exitFuncs = <<>>
    /\ tx = NoTx /\ events = <<>>

\* mainErr up to root.Execute (main.go:209-414): the working directory, the
\* build (get-or-build: a description, an error, or a fatal of abigen), the commands
Startup ==
    /\ ~exit.done /\ pc = 0
    /\ \E build \in {"ok", "err", "fatal"} :
          CASE build = "ok" ->
                 /\ workDir' = TRUE /\ pc' = 1 /\ UNCHANGED exit
            [] build = "err" ->
                 /\ workDir' = FALSE /\ UNCHANGED pc
                 /\ exit' = [done |-> TRUE, code |-> 1, how |-> "error"]
            [] OTHER ->
                 /\ workDir' = TRUE /\ UNCHANGED pc
                 /\ exit' = [done |-> TRUE, code |-> 1, how |-> "exit"]
    /\ UNCHANGED <<cfg, client, deployment, hw, exitFuncs, tx, events>>
    /\ UNCHANGED <<cacheVars, numVars, synthVars>>

\* root.Execute(): cobra validates the arguments with the command's Args
\* before it calls Run; a wrong count is an error returned to mainErr
ValidateArgs ==
    /\ At("ExactArgs")
    /\ Finish(IF cfg.given = ExactArgs(cfg) THEN Ok(Cur)
              ELSE Error(Cur, "accepts n arg(s), received m"))

\* the parsers of the arguments (main.go:336-339; part_003:459-460)
\* the loop ends at the first argument whose type has no entry in solTypes
\* (the call of a nil parser panics) or whose text its parser rejects (fatal)
ParseOutcomes ==
    LET bad == IF cfg.argsOK THEN {} ELSE {Fatal(Cur, "failed to parse argument")}
        nil == IF cfg.types = "noInput" THEN {Panic(Cur)} ELSE {}
    IN  IF bad \cup nil = {} THEN {Ok(Cur)} ELSE bad \cup nil

ParseInputs ==
    /\ At("parseInputs")
    /\ \E r \in ParseOutcomes : Finish(r)

\* method.Outputs[0].Type.String() and solTypes[outType].goType() (main.go:341-342)
OutType ==
    /\ At("outType")
    /\ Finish(IF cfg.hasOutputs /\ cfg.types # "noOutput" THEN Ok(Cur) ELSE Panic(Cur))

\* getDeployment(theABI) (main.go:346, 355)
GetDeployment ==
    /\ At("getDeployment")
    /\ \E env \in EnvNode : Finish(getDeployment(Cur, cfg, env))

\* the call of a constant method and its output (main.go:346-353)
Call ==
    /\ At("Call")
    /\ \E env \in EnvNode :
          LET Show(x) == Ok(Emit(x, "out:result"))
          IN  Finish(Then(Request(Cur, "req:call", env.rpc, "calling"), Show))

\* getTxnOpts() (main.go:356; part_003:461)
GetTxnOpts ==
    /\ At("getTxnOpts")
    /\ \E henv \in EnvHW, env \in EnvNode : Finish(getTxnOpts(Cur, cfg, henv, env))

\* Transact(opts, name, inputs...) (main.go:355-359)
TransactMethod ==
    /\ At("Transact")
    /\ \E env \in EnvTx : Finish(Transact(Cur, cfg, env))

\* deployCmd: getNode() as argument of bind.DeployContract (part_003:402)
DeployNode ==
    /\ At("deployNode")
    /\ \E env \in EnvNode : Finish(getNode(Cur, env))

\* deployCmd: bind.DeployContract and viper.Set("address", ...) (part_003:398-405)
Deploy ==
    /\ At("Deploy")
    /\ \E env \in EnvTx : Finish(Transact(Cur, cfg, env))

\* deployCmd: the export line after log returned (part_003:407)
PrintExport ==
    /\ At("printExport")
    /\ Finish(Ok(Emit(Cur, "out:export POKE_ADDRESS")))

\* log(name+"()", tx, theABI, err) (main.go:360)
Log ==
    /\ At("log")
    /\ \E env \in EnvLog : Finish(log(Cur, env))

\* addressCmd (part_003:421-423)
PrintAddress ==
    /\ At("printAddress")
    /\ \E henv \in EnvHW :
          LET Show(x) == Ok(Emit(x, "out:address"))
          IN  Finish(Then(getAddress(Cur, cfg, henv), Show))

\* sendEthCmd: getNode().PendingNonceAt(ctx, getAddress()) (part_003:457-458)
PendingNonce ==
    /\ At("pendingNonce")
    /\ \E henv \in EnvHW, env \in EnvNode :
          LET Address(x) == getAddress(x, cfg, henv)
              Ask(x) == Request(x, "req:nonce", env.rpc, "retrieving nonce")
          IN  Finish(Then(Then(getNode(Cur, env), Address), Ask))

\* sendEthCmd: the signer on the new transaction (part_003:461-473)
SignEth ==
    /\ At("signEth")
    /\ \E henv \in EnvHW, env \in EnvSend :
          LET Address(x) == getAddress(x, cfg, henv)
              Price(x) == getGasPrice(x, cfg.gasprice, env)
              Sign(x) == Signer(x, cfg, env)
              Check(x) == IF x.tx.err THEN Fatal(x, "signing transaction") ELSE Ok(x)
          IN  Finish(Then(Then(Then(Then(getNetID(Cur, env), Address), Price), Sign), Check))

\* sendEthCmd: SendTransaction (part_003:474-475)
SendEth ==
    /\ At("sendEth")
    /\ \E env \in EnvNode :
          LET Sent(x) == Ok([Emit(x, "out:Sent") EXCEPT !.tx.sent = TRUE])
          IN  Finish(Then(Request(Cur, "req:send", env.rpc, "sending transaction"), Sent))

\* root.Execute() returned: the deferred calls of mainErr run, main returns
Return ==
    /\ ~exit.done /\ pc = Len(Program) + 1
    /\ SetState(runExitFuncs(Cur))
    /\ workDir' = FALSE
    /\ exit' = [done |-> TRUE, code |-> 0, how |-> "return"]
    /\ UNCHANGED <<cfg, pc>>
    /\ UNCHANGED <<cacheVars, numVars, synthVars>>

NextRun ==
    \/ Startup
    \/ ValidateArgs
    \/ DeployNode
    \/ Deploy
    \/ PrintExport
    \/ ParseInputs
    \/ OutType
    \/ GetDeployment
    \/ Call
    \/ GetTxnOpts
    \/ TransactMethod
    \/ Log
    \/ PrintAddress
    \/ PendingNonce
    \/ SignEth
    \/ SendEth
    \/ Return

SpecRun == InitRun /\ [][NextRun]_vars

-----------------------------------------------------------------------------
(* Properties of a run.                                                    *)

RECURSIVE PosFrom(_, _, _)
PosFrom(seq, e, i) ==
    IF i > Len(seq) THEN 0 ELSE IF seq[i] = e THEN i ELSE PosFrom(seq, e, i + 1)

\* the index of the first e in the events of the run, 0 if there is none
Pos(e) == PosFrom(events, e, 1)
Happened(e) == Pos(e) > 0
Before(a, b) == Happened(a) /\ Happened(b) /\ Pos(a) < Pos(b)

NodeEvents ==
    {"dial", "req:call", "req:netid", "req:gasprice", "req:nonce", "req:send", "req:receipt"}
NoNodeIO == \A i \in 1..Len(events) : events[i] \notin NodeEvents

\* C4: when the process has ended, the Close of the hardware session has been
\* invoked exactly once if a session was opened (the exchange with the device
\* begun by wallet.Open, PIN entry included) and never if none was opened.
\* The run in which wallet.Open asks for the PIN and the PIN input (or the
\* second Open) fails ends through fatal before atExit was reached: a session
\* was opened and Close was invoked zero times.
C4_ClosedExactlyOnce ==
    exit.done => hw.closes = (IF hw.opened THEN 1 ELSE 0)

\* what does hold: once atExit has registered the Close, every end of the
\* process (return, fatal, panic) invokes it exactly once
ClosedOnceWhenRegistered ==
    exit.done => hw.closes = Len(exitFuncs) /\ Len(exitFuncs) = (IF hw.wallet THEN 1 ELSE 0)

\* C8: a run of a constant method's command with no contract address, its
\* arguments of the declared number and well formed, ends with the missing-address message and exit
\* code 1, and no connection to the node was made and no request sent.
\* A constant method that declares no output ends at method.Outputs[0]
\* instead, with a panic and exit code 2.
C8_MissingAddressUsage ==
    (cfg.cmd = "call" /\ cfg.address = "" /\ cfg.given = cfg.declared /\ cfg.argsOK
        /\ pc >= 1 /\ exit.done)
        => /\ Happened("No address specified for the contract.")
           /\ exit.code = 1
           /\ NoNodeIO

\* what does hold: no run of a constant method's command with no address
\* reaches the node, and none ends with exit code 0
NoAddressNoNodeIO ==
    (cfg.cmd = "call" /\ cfg.address = "")
        => NoNodeIO /\ (exit.done => exit.code # 0)

\* C9: in a run of a mutating method's command, "transaction reverted" is
\* reported only after the transaction was signed, then sent to the node,
\* then a mined receipt obtained; and when the mined receipt's status is
\* not successful the run has ended through fatal with exit code 1 and has
\* printed neither the events nor a message of success.
C9_RevertDetectedAfterMining ==
    cfg.cmd = "transact" =>
        /\ Happened("transaction reverted")
             => /\ tx.signed /\ tx.sent
                /\ Before("signed", "req:send")
                /\ Before("req:send", "req:receipt")
                /\ Before("req:receipt", "receipt:failed")
                /\ Before("receipt:failed", "transaction reverted")
        /\ Happened("receipt:failed")
             => /\ exit.done /\ exit.code = 1 /\ exit.how = "exit"
                /\ Happened("transaction reverted")
                /\ ~Happened("out:Done. Events:")
                /\ ~Happened("out:< Done. No events generated >")

\* a mutating method's transaction, signed on the hardware wallet, was mined
\* with a status that is not successful
C9_Witness ==
    /\ cfg.cmd = "transact" /\ cfg.from = "hardware"
    /\ Happened("hw:sign") /\ Happened("receipt:failed")
    /\ exit.done

\* C11: a method command or the deploy command given a number of arguments
\* other than the declared number of inputs never enters its handler: the
\* run ends with the usage error of the argument count and exit code 1,
\* having parsed nothing, reached no node and used no signer; given exactly
\* the declared number, the run is not rejected for its count and goes on
\* into the handler. The outputs of the method play no part in the count.
C11_ArgumentCount ==
    (cfg.cmd \in {"call", "transact", "deploy"} /\ pc >= 1) =>
        /\ cfg.given # cfg.declared =>
              /\ pc = 1
              /\ events \in {<<>>, <<"accepts n arg(s), received m">>}
              /\ ~client /\ ~deployment /\ hw = NoWallet /\ tx = NoTx
              /\ exit.done => exit.code = 1 /\ exit.how = "error"
        /\ cfg.given = cfg.declared =>
              /\ ~Happened("accepts n arg(s), received m")
              /\ exit.done => pc >= 2

\* a constant method with an output was given one argument too many and the
\* run has ended
C11_Witness ==
    /\ cfg.cmd = "call" /\ cfg.hasOutputs /\ cfg.given = cfg.declared + 1
    /\ exit.done /\ Happened("accepts n arg(s), received m")

\* the operation of the run was carried out to its end
Succeeded ==
    CASE cfg.cmd = "call"     -> Happened("out:result")
      [] cfg.cmd = "transact" -> Happened("receipt:successful")
      [] cfg.cmd = "deploy"   -> Happened("receipt:successful") /\ Happened("out:export POKE_ADDRESS")
      [] cfg.cmd = "address"  -> Happened("out:address")
      [] OTHER                -> Happened("out:Sent")

\* C12: a run that has ended has exit code 0 or 1, it never ends by a panic,
\* and it has exit code 0 only if its operation succeeded. The code ends by
\* a panic, with exit code 2, for a `from` that is no private key (the nil
\* key is dereferenced), for an argument or output type without an entry in
\* solTypes (a nil function is called) and for a constant method without
\* outputs (method.Outputs[0]).
C12_ExitCodes ==
    exit.done =>
        /\ exit.code \in {0, 1}
        /\ exit.how # "panic"
        /\ exit.code = 0 => Succeeded

\* what does hold: exit code 0 only after success, and every end through
\* fatal or a returned error has exit code 1
ExitCodeZeroOnlyOnSuccess ==
    exit.done =>
        /\ exit.code = 0 => Succeeded
        /\ exit.how \in {"exit", "error"} => exit.code = 1
        /\ exit.how = "panic" <=> exit.code = 2

\* C14: in hardware mode the device is asked to sign only after the sender
\* was found equal to the address of the derived account and, after that,
\* the prompt of the pending confirmation was printed; when the sender
\* differs the run ends through fatalf with exit code 1 and the device is
\* never asked to sign.
C14_HardwareSigningOrder ==
    cfg.from = "hardware" =>
        /\ Happened("hw:sign") =>
              /\ hw.wallet /\ hw.account
              /\ Before("from = account.Address",
                        "out:Waiting for you to confirm on the hardware wallet...")
              /\ Before("out:Waiting for you to confirm on the hardware wallet...", "hw:sign")
        /\ Happened("unexpected from address.") =>
              /\ ~Happened("hw:sign")
              /\ ~Happened("out:Waiting for you to confirm on the hardware wallet...")
              /\ exit.done /\ exit.code = 1 /\ exit.how = "exit"
        /\ Happened("out:Waiting for you to confirm on the hardware wallet...")
              => Happened("from = account.Address")

\* the device signed the transaction of a mutating method
C14_Witness ==
    /\ cfg.from = "hardware" /\ cfg.cmd = "transact"
    /\ Happened("hw:sign") /\ tx.signed

RECURSIVE CountFrom(_, _, _)
CountFrom(seq, S, i) ==
    IF i > Len(seq) THEN 0 ELSE (IF seq[i] \in S THEN 1 ELSE 0) + CountFrom(seq, S, i + 1)

\* the number of the events of the run that are in S
Count(S) == CountFrom(events, S, 1)

\* C15: once a transaction was mined with success, each log of its receipt
\* has produced output, its decoded event or its decode error, none is
\* passed over in silence, and no log ends the run. In the code a log whose
\* first topic is that of no event of the ABI prints nothing, and a log
\* without topics ends the run by a panic at log.Topics[0].
C15_EveryLogReported ==
    Happened("receipt:successful") =>
        /\ Count({"out:event", "out:decode error"}) = Len(tx.logs)
        /\ exit.done => exit.how # "panic"

\* what does hold: a log with an event of its topic is reported, decoded or
\* by its decode error, as long as no log without topics came before it
MatchedLogsReported ==
    (Happened("receipt:successful") /\ \A i \in 1..Len(tx.logs) : tx.logs[i] # "notopics")
        => Count({"out:event", "out:decode error"})
             = Len(SelectSeq(tx.logs, LAMBDA l : l \in {"decodes", "undecodable"}))

\* the device was enumerated at most once, opened at most once (Open("")
\* and, if it asked for the PIN, Open(pin)), one Close registered, and its
\* account derived at most once
OpenedOnce ==
    /\ Count({"hw:enumerate"}) <= 1
    /\ hw.opens <= 2 /\ (hw.opens = 2 => Count({"pin"}) = 1)
    /\ Len(exitFuncs) <= 1
    /\ hw.derives <= 1
    /\ hw.account => hw.wallet /\ hw.derives = 1

\* C16: in one run the hardware device is enumerated, opened and its account
\* derived at most once; once openHardwareWallet has returned, no later step
\* (getAddress, getTxnOpts, the uses inside send-eth) enumerates, opens or
\* derives again, the wallet and the account stay the ones it returned, and
\* an account is held only with the wallet it was derived from.
C16_HardwareSingleton ==
    /\ []OpenedOnce
    /\ [][hw.account =>
             /\ hw'.wallet /\ hw'.account
             /\ hw'.opens = hw.opens /\ hw'.derives = hw.derives
             /\ Count({"hw:enumerate", "hw:open", "hw:derive", "pin"})'
                  = Count({"hw:enumerate", "hw:open", "hw:derive", "pin"})]_vars

\* send-eth in hardware mode has sent its transaction: getAddress, getTxnOpts
\* and getAddress again have each called openHardwareWallet
C16_Witness ==
    /\ cfg.cmd = "send-eth" /\ cfg.from = "hardware"
    /\ hw.wallet /\ hw.account /\ Happened("hw:sign") /\ Happened("out:Sent")

SignerEvents ==
    {"hw:enumerate", "hw:open", "pin", "hw:derive", "hw:sign", "signed",
     "out:Waiting for you to confirm on the hardware wallet...",
     "req:gasprice", "req:nonce", "req:send", "Failed to parse private key:"}

\* C18: a run of a mutating method's command with no contract address, given
\* the declared number of arguments, never enumerates or opens the hardware
\* wallet, asks for no PIN, queries no gas price and signs and submits
\* nothing, and it ends with exit code 1. A method with an input of a type
\* outside solTypes ends by a panic with exit code 2 instead.
C18_NoAddressEndsBeforeSigner ==
    (cfg.cmd = "transact" /\ cfg.address = "" /\ cfg.given = cfg.declared /\ pc >= 1) =>
        /\ Count(SignerEvents) = 0
        /\ hw = NoWallet /\ tx = NoTx
        /\ exit.done => exit.code = 1

\* what does hold: with no address no run of a mutating method's command
\* reaches the signer or the node, and one whose arguments were parsed ends
\* at getDeployment with the missing-address message and exit code 1
NoAddressNoSigner ==
    (cfg.cmd = "transact" /\ cfg.address = "") =>
        /\ Count(SignerEvents) = 0 /\ NoNodeIO
        /\ hw = NoWallet /\ tx = NoTx
        /\ (exit.done /\ pc = 3) =>
              /\ Happened("No address specified for the contract.")
              /\ exit.code = 1

\* C19: when the process has ended, the temporary working directory made at
\* startup has been removed. A run that ends through exit(1) (fatal, fatalf,
\* check) calls os.Exit inside mainErr, so the deferred os.RemoveAll never
\* runs and the directory stays.
C19_WorkDirRemoved ==
    exit.done => ~workDir

\* what does hold: the directory is removed when mainErr returns or panics,
\* and it stays exactly when the run ends through exit
WorkDirRemovedOnReturn ==
    (exit.done /\ pc >= 1) => (workDir <=> exit.how = "exit")

====
